---- MODULE Spec2Model ----
(***************************************************************************)
(* Collision subsystem of src/src/main.rs: the per-frame bounding-volume   *)
(* snapshot (updated_computed_aabbs), the overlap test                     *)
(* (AabbComputed::intersects), the displacement                            *)
(* (AabbComputed::shallow_axis_displace) and the resolver                  *)
(* (handle_collision), run in the order fixed by main().                   *)
(*                                                                         *)
(* Numbers.  The program computes in f32.  Every value the model handles   *)
(* is a dyadic rational of small magnitude, which f32 represents exactly,  *)
(* and the only operations are +, -, abs, <, <=, >= and division by two,   *)
(* all exact on such values.  A number is the pair <<m, e>> standing for   *)
(* m / 2^e, kept normalised (e = 0, or m odd), so that equal values are    *)
(* equal pairs and halving is never rounded.                               *)
(***************************************************************************)
EXTENDS Integers, Sequences, FiniteSets, TLC

VARIABLES
    entities,    \* the owner entities alive in the World
    transform,   \* owner entity -> translation of its Transform
    gtransform,  \* owner entity -> translation of its GlobalTransform
    tchanged,    \* owner entities whose Transform changed since propagation last ran
    volumes,     \* uuid -> the child entity carrying an AabbBundle
    aabbs,       \* CollisionWorld.aabbs: uuid -> (Entity, AabbComputed)
    keys,        \* Input<KeyCode>: the key held during the current frame
    stage,       \* which system runs next
    frame,       \* number of the frame being run
    panic,       \* "none", or the panic that aborted the process
    dbg,         \* what the last handle_collision pass printed with dbg!
    probe        \* the last direct call of a method of AabbComputed, with its result

vars == <<entities, transform, gtransform, tchanged, volumes, aabbs, keys, stage, frame,
          panic, dbg, probe>>

---------------------------------------------------------------------------
(* Bounds of the model *)

\* Frames run by the system specifications.
MaxFrames == 3

\* Volumes spawned at startup in the scenes other than setup's.
NumVolumes == 2

\* Largest coordinate of a box handed directly to a method of AabbComputed.
MaxCoord == 2

---------------------------------------------------------------------------
(* Exact arithmetic on dyadic rationals *)

RECURSIVE Pow2(_)
Pow2(n) == IF n = 0 THEN 1 ELSE 2 * Pow2(n - 1)

RECURSIVE Norm(_, _)
Norm(m, e) == IF e > 0 /\ m % 2 = 0 THEN Norm(m \div 2, e - 1) ELSE <<m, e>>

F(n) == <<n, 0>>

Zero == F(0)

MaxExp(a, b) == IF a[2] < b[2] THEN b[2] ELSE a[2]

\* the numerator of a over the denominator 2^e, e >= a[2]
Scaled(a, e) == a[1] * Pow2(e - a[2])

Add(a, b) == Norm(Scaled(a, MaxExp(a, b)) + Scaled(b, MaxExp(a, b)), MaxExp(a, b))

Neg(a) == <<-a[1], a[2]>>

Sub(a, b) == Add(a, Neg(b))

Abs(a) == IF a[1] < 0 THEN Neg(a) ELSE a

Lt(a, b) == Scaled(a, MaxExp(a, b)) < Scaled(b, MaxExp(a, b))

Le(a, b) == Scaled(a, MaxExp(a, b)) <= Scaled(b, MaxExp(a, b))

Ge(a, b) == Le(b, a)

Half(a) == Norm(a[1], a[2] + 1)

Times(a, k) == Norm(a[1] * k, a[2])

(* Vec2 *)

Vec2(x, y) == [x |-> x, y |-> y]

VAdd(u, v) == Vec2(Add(u.x, v.x), Add(u.y, v.y))

VSub(u, v) == Vec2(Sub(u.x, v.x), Sub(u.y, v.y))

VZero == Vec2(Zero, Zero)

---------------------------------------------------------------------------
(* Component types *)

SCALE == 4

AabbKind == {"Sensor", "Collider"}

CollisionBehavior == {"None", "Static", "Npc", "Player", "Movable"}

AabbComputed(min, max, kind, behavior) ==
    [min |-> min, max |-> max, aabb_kind |-> kind, collision_behavior |-> behavior]

\* Aabb::extents
extents(aabb) == Vec2(Half(Times(aabb.extents.x, SCALE)), Half(Times(aabb.extents.y, SCALE)))

---------------------------------------------------------------------------
(* AabbComputed::intersects *)

\* the geometric condition of intersects, one axis: self's min or self's max
\* lies within other's span
AxisTest(smin, smax, omin, omax) ==
    \/ (Ge(smin, omin) /\ Le(smin, omax))
    \/ (Ge(smax, omin) /\ Le(smax, omax))

\* the whole condition of the if
GeometryTest(self, other) ==
    /\ AxisTest(self.min.x, self.max.x, other.min.x, other.max.x)
    /\ AxisTest(self.min.y, self.max.y, other.min.y, other.max.y)

\* the match on the two kinds
Classify(k1, k2) ==
    IF k1 = "Collider" /\ k2 = "Collider" THEN "ColliderCollider"
    ELSE IF k1 = "Sensor" /\ k2 = "Sensor" THEN "SensorSensor"
    ELSE "SensorCollider"

\* Option<CollisionKind>: "None" or the kind
intersects(self, other, self_ent, other_ent) ==
    IF self_ent = other_ent THEN "None"
    ELSE IF GeometryTest(self, other)
         THEN Classify(self.aabb_kind, other.aabb_kind)
         ELSE "None"

---------------------------------------------------------------------------
(* AabbComputed::shallow_axis_displace *)

\* shallow_axis_displace with <= in the last comparison: a tie goes to the
\* horizontal axis
shallow_axis_displace_tie_horizontal(self, other) ==
    LET left_displacement  == Sub(other.min.x, self.max.x)
        right_displacement == Sub(other.max.x, self.min.x)
        down_displacement  == Sub(other.min.y, self.max.y)
        up_displacement    == Sub(other.max.y, self.min.y)
        horizontal == IF Lt(Abs(left_displacement), Abs(right_displacement))
                      THEN left_displacement ELSE right_displacement
        vertical   == IF Lt(Abs(up_displacement), Abs(down_displacement))
                      THEN up_displacement ELSE down_displacement
    IN  IF Le(Abs(horizontal), Abs(vertical))
        THEN Vec2(Half(horizontal), Zero)
        ELSE Vec2(Zero, Half(vertical))

shallow_axis_displace(self, other) ==
    LET left_displacement  == Sub(other.min.x, self.max.x)
        right_displacement == Sub(other.max.x, self.min.x)
        down_displacement  == Sub(other.min.y, self.max.y)
        up_displacement    == Sub(other.max.y, self.min.y)
        horizontal == IF Lt(Abs(left_displacement), Abs(right_displacement))
                      THEN left_displacement ELSE right_displacement
        vertical   == IF Lt(Abs(up_displacement), Abs(down_displacement))
                      THEN up_displacement ELSE down_displacement
    IN  IF Lt(Abs(horizontal), Abs(vertical))
        THEN Vec2(Half(horizontal), Zero)
        ELSE Vec2(Zero, Half(vertical))

---------------------------------------------------------------------------
(* The entities and components of the World *)

PlayerEnt == 1

CowEnt == 2

Entities == {PlayerEnt, CowEnt}

\* the components AabbBundle::new gives a volume, as a child of parent, with
\* the GlobalTransform it has before propagation first runs
AabbBundle(uuid, parent, ext, kind, behavior) ==
    [parent |-> parent,
     aabb |-> [uuid |-> uuid, extents |-> ext],
     aabb_kind |-> kind,
     collision_behavior |-> behavior,
     gtrans |-> VZero,
     changed |-> TRUE]

NoProbe == [fn |-> "none", self |-> AabbComputed(VZero, VZero, "Sensor", "None"),
            other |-> AabbComputed(VZero, VZero, "Sensor", "None"),
            self_ent |-> 0, other_ent |-> 0, kind |-> "None", displacement |-> VZero]

---------------------------------------------------------------------------
(* setup: the player at (0, -200) and the cow at (-300, -200), each with a *)
(* Collider of extents (32, 32) and a Sensor of extents (46, 46).          *)

SetupTransforms ==
    (PlayerEnt :> Vec2(F(0), F(-200))) @@ (CowEnt :> Vec2(F(-300), F(-200)))

SetupVolumes ==
    << AabbBundle(1, PlayerEnt, Vec2(F(32), F(32)), "Collider", "Player"),
       AabbBundle(2, PlayerEnt, Vec2(F(46), F(46)), "Sensor", "None"),
       AabbBundle(3, CowEnt, Vec2(F(32), F(32)), "Collider", "Static"),
       AabbBundle(4, CowEnt, Vec2(F(46), F(46)), "Sensor", "None") >>

\* the state after the startup system
Init ==
    /\ entities = Entities
    /\ transform = SetupTransforms
    /\ gtransform = [e \in Entities |-> VZero]
    /\ tchanged = Entities
    /\ volumes = SetupVolumes
    /\ aabbs = <<>>
    /\ keys = "none"
    /\ stage = "update"
    /\ frame = 0
    /\ panic = "none"
    /\ dbg = <<>>
    /\ probe = NoProbe

\* frame times, in seconds: 1/2 and 1/4
DeltaSeconds == {<<1, 1>>, <<1, 2>>}

\* the keys player_input distinguishes: A held, D held (and not A), neither
Keys == {"A", "D", "none"}

\* player_input, in the Update stage: the key held during the frame moves the
\* player along x by 300.0 * delta_seconds; single_mut panics when no entity
\* carries PlayerTag
player_input(key, dt) ==
    /\ stage = "update"
    /\ frame < MaxFrames
    /\ keys' = key
    /\ IF PlayerEnt \notin entities
       THEN /\ panic' = "single_mut"
            /\ stage' = "aborted"
            /\ UNCHANGED <<transform, tchanged>>
       ELSE /\ panic' = panic
            /\ stage' = "postupdate"
            /\ transform' =
                 IF key = "A"
                 THEN [transform EXCEPT ![PlayerEnt].x = Sub(transform[PlayerEnt].x, Times(dt, 300))]
                 ELSE IF key = "D"
                 THEN [transform EXCEPT ![PlayerEnt].x = Add(transform[PlayerEnt].x, Times(dt, 300))]
                 ELSE transform
            /\ tchanged' = IF key = "none" THEN tchanged ELSE tchanged \cup {PlayerEnt}
    /\ UNCHANGED <<entities, gtransform, volumes, aabbs, frame, dbg, probe>>

\* transform_propagate_system, run in PostUpdate and again at the end of the
\* physics stage: a root whose Transform changed gets its GlobalTransform
\* rewritten from it, and so do its children (whose own Transform is the
\* identity translation)
transform_propagate_system ==
    /\ stage \in {"postupdate", "physics"}
    /\ LET hit == tchanged \cap entities
       IN  /\ gtransform' = [e \in Entities |->
                               IF e \in hit THEN transform[e] ELSE gtransform[e]]
           /\ volumes' = [u \in DOMAIN volumes |->
                            IF volumes[u].parent \in hit
                            THEN [volumes[u] EXCEPT !.gtrans = transform[volumes[u].parent],
                                                    !.changed = TRUE]
                            ELSE volumes[u]]
    /\ tchanged' = {}
    /\ stage' = IF stage = "postupdate" THEN "aabb" ELSE "update"
    /\ UNCHANGED <<entities, transform, aabbs, keys, frame, panic, dbg, probe>>

\* the AabbComputed of one volume
Computed(v) ==
    AabbComputed(VSub(v.gtrans, extents(v.aabb)), VAdd(v.gtrans, extents(v.aabb)),
                 v.aabb_kind, v.collision_behavior)

updated_computed_aabbs ==
    /\ stage = "aabb"
    /\ aabbs' = [u \in DOMAIN aabbs \cup {w \in DOMAIN volumes : volumes[w].changed} |->
                   IF u \in DOMAIN volumes /\ volumes[u].changed
                   THEN [ent |-> volumes[u].parent, aabb |-> Computed(volumes[u])]
                   ELSE aabbs[u]]
    /\ volumes' = [u \in DOMAIN volumes |-> [volumes[u] EXCEPT !.changed = FALSE]]
    /\ stage' = "collision"
    /\ frame' = frame + 1
    /\ UNCHANGED <<entities, transform, gtransform, tchanged, keys, panic, dbg, probe>>

---------------------------------------------------------------------------
(* handle_collision *)

\* The state of one pass: the Transform and GlobalTransform translations,
\* the entities whose Transform was borrowed mutably, the panic that ended
\* the pass, and the lines printed by dbg!.
PassStart ==
    [t |-> transform, g |-> gtransform, touched |-> {}, panic |-> "none", out |-> <<>>]

\* translation += displacement on the Transform, then on the GlobalTransform,
\* of ent; each get_component_mut(..).unwrap() panics when ent has no such
\* component.  dbg! has printed before the first unwrap.
Displace(st, ent, displacement, line, self, other) ==
    LET printed == Append(st.out, [line |-> line, displacement |-> displacement,
                                   ent |-> ent, self |-> self, other |-> other])
    IN  IF ent \notin entities
        THEN [st EXCEPT !.out = printed, !.panic = "unwrap"]
        ELSE [st EXCEPT !.out = printed,
                        !.t[ent] = VAdd(st.t[ent], displacement),
                        !.g[ent] = VAdd(st.g[ent], displacement),
                        !.touched = st.touched \cup {ent}]

\* the arm (CollisionBehavior::Player, CollisionBehavior::Static)
PlayerStaticArm(st, u1, u2) ==
    Displace(st, aabbs[u1].ent,
             shallow_axis_displace(aabbs[u1].aabb, aabbs[u2].aabb), 405, u1, u2)

\* the arm (Static, Player) displacing ent1, the owner of the Static volume
StaticPlayerArm_moves_ent1(st, u1, u2) ==
    Displace(st, aabbs[u1].ent,
             shallow_axis_displace(aabbs[u2].aabb, aabbs[u1].aabb), 417, u2, u1)

\* the arm (CollisionBehavior::Static, CollisionBehavior::Player)
StaticPlayerArm(st, u1, u2) ==
    Displace(st, aabbs[u2].ent,
             shallow_axis_displace(aabbs[u2].aabb, aabbs[u1].aabb), 417, u2, u1)

\* the match on the two collision behaviors of a ColliderCollider overlap
Dispatch(st, u1, u2) ==
    LET b1 == aabbs[u1].aabb.collision_behavior
        b2 == aabbs[u2].aabb.collision_behavior
    IN  IF b1 = "Player" /\ b2 = "Static" THEN PlayerStaticArm(st, u1, u2)
        ELSE IF b1 = "Static" /\ b2 = "Player" THEN StaticPlayerArm(st, u1, u2)
        ELSE IF b1 = "None" /\ b2 = "None" THEN st
        ELSE [st EXCEPT !.panic = "todo"]

\* the inner loop body with the SensorCollider arm resolving like the
\* (Player, Static) arm
PairStep_sensor_resolved(st, u1, u2) ==
    LET kind == intersects(aabbs[u1].aabb, aabbs[u2].aabb, aabbs[u1].ent, aabbs[u2].ent)
    IN  IF kind = "ColliderCollider" THEN Dispatch(st, u1, u2)
        ELSE IF kind = "SensorCollider" THEN PlayerStaticArm(st, u1, u2)
        ELSE st

\* the body of the inner loop for (ent1, aabb1), (ent2, aabb2)
PairStep(st, u1, u2) ==
    LET kind == intersects(aabbs[u1].aabb, aabbs[u2].aabb, aabbs[u1].ent, aabbs[u2].ent)
    IN  IF kind = "ColliderCollider" THEN Dispatch(st, u1, u2) ELSE st

\* the two nested loops over collision_world.aabbs.values(), which the map
\* yields in the order ord; a panic ends the pass
RECURSIVE RunPass(_, _, _)
RunPass(st, ord, k) ==
    IF k > Len(ord) * Len(ord) \/ st.panic # "none" THEN st
    ELSE RunPass(PairStep(st, ord[((k - 1) \div Len(ord)) + 1], ord[((k - 1) % Len(ord)) + 1]),
                 ord, k + 1)

\* the orders in which a HashMap may yield its values
Orders(S) == {f \in [1..Cardinality(S) -> S] : \A i, j \in DOMAIN f : f[i] = f[j] => i = j}

handle_collision ==
    /\ stage = "collision"
    /\ \E end \in {RunPass(PassStart, ord, 1) : ord \in Orders(DOMAIN aabbs)} :
         /\ transform' = end.t
         /\ gtransform' = end.g
         /\ tchanged' = tchanged \cup end.touched
         /\ panic' = end.panic
         /\ dbg' = end.out
         /\ stage' = IF end.panic = "none" THEN "physics" ELSE "aborted"
    /\ UNCHANGED <<entities, volumes, aabbs, keys, frame, probe>>

---------------------------------------------------------------------------
(* The program: setup, then frames in the order main() registers the       *)
(* systems: player_input in Update, propagation in PostUpdate, and in the  *)
(* physics stage updated_computed_aabbs, handle_collision, propagation.    *)

Next ==
    \/ \E key \in Keys, dt \in DeltaSeconds : player_input(key, dt)
    \/ transform_propagate_system
    \/ updated_computed_aabbs
    \/ handle_collision

Spec == Init /\ [][Next]_vars

---------------------------------------------------------------------------
(* The same systems over other scenes.  AabbBundle::new and the Transform  *)
(* of an owner accept any value, and the systems take whatever World and   *)
(* registry they are handed; setup passes none of the values below.  The   *)
(* properties of the systems that quantify over every volume are settled   *)
(* here: two owners, the first at the origin, up to NumVolumes volumes of  *)
(* any kind and policy, and possibly one owner destroyed.                  *)

\* translation of the second owner
SceneOffsets == {Vec2(F(3), F(0)), Vec2(F(3), F(5))}

\* extents handed to AabbBundle::new
SceneExtents == {Vec2(F(3), F(1)), Vec2(F(1), F(3))}

\* extents that describe no box: a zero or a negative component
DegenerateExtents == {Vec2(F(0), F(1)), Vec2(F(-1), F(1)), Vec2(F(1), F(-2))}

\* frame time of the scenes, in seconds: 1/64
SceneDeltaSeconds == {<<1, 6>>}

\* keys held in the scenes: none, or D
SceneKeys == {"none", "D"}

\* Frames run in the scenes.
MaxSceneFrames == 2

InitScene ==
    /\ entities = Entities
    /\ \E off \in SceneOffsets : transform = (PlayerEnt :> VZero) @@ (CowEnt :> off)
    /\ gtransform = [e \in Entities |-> VZero]
    /\ tchanged = Entities
    /\ volumes = <<>>
    /\ aabbs = <<>>
    /\ keys = "none"
    /\ stage = "startup"
    /\ frame = 0
    /\ panic = "none"
    /\ dbg = <<>>
    /\ probe = NoProbe

\* a startup system spawns a volume as a child of parent, the first owner's
\* children before the second's; the Uuid is fresh
AabbBundle_new(parent, ext, kind, behavior) ==
    /\ stage = "startup"
    /\ Len(volumes) < NumVolumes
    /\ \A u \in DOMAIN volumes : volumes[u].parent <= parent
    /\ volumes' = Append(volumes, AabbBundle(Len(volumes) + 1, parent, ext, kind, behavior))
    /\ UNCHANGED <<entities, transform, gtransform, tchanged, aabbs, keys, stage, frame,
                   panic, dbg, probe>>

\* the startup stage has run; the first frame begins
StartupDone ==
    /\ stage = "startup"
    /\ stage' = "update"
    /\ UNCHANGED <<entities, transform, gtransform, tchanged, volumes, aabbs, keys, frame,
                   panic, dbg, probe>>

\* one owner entity is despawned by a command of the Update stage, after its
\* volumes were registered; its children and the registry are left as they are
Despawn(e) ==
    /\ stage = "postupdate"
    /\ 0 < frame
    /\ entities = Entities
    /\ e \in entities
    /\ entities' = entities \ {e}
    /\ transform' = [transform EXCEPT ![e] = VZero]
    /\ gtransform' = [gtransform EXCEPT ![e] = VZero]
    /\ tchanged' = tchanged \ {e}
    /\ UNCHANGED <<volumes, aabbs, keys, stage, frame, panic, dbg, probe>>

NextScene ==
    \/ \E parent \in Entities, ext \in SceneExtents, kind \in AabbKind,
          behavior \in CollisionBehavior : AabbBundle_new(parent, ext, kind, behavior)
    \/ StartupDone
    \/ \E key \in SceneKeys, dt \in SceneDeltaSeconds :
          frame < MaxSceneFrames /\ player_input(key, dt)
    \/ transform_propagate_system
    \/ \E e \in Entities : Despawn(e)
    \/ updated_computed_aabbs
    \/ handle_collision

SpecScene == InitScene /\ [][NextScene]_vars

---------------------------------------------------------------------------
(* Volume construction alone, with zero and negative extents among the     *)
(* arguments, followed by the first recomputation of the bounds.           *)

NextConstruct ==
    \/ \E parent \in Entities, ext \in SceneExtents \cup DegenerateExtents, kind \in AabbKind,
          behavior \in {"Player", "Static"} : AabbBundle_new(parent, ext, kind, behavior)
    \/ StartupDone
    \/ \E dt \in SceneDeltaSeconds : frame < MaxSceneFrames /\ player_input("none", dt)
    \/ transform_propagate_system
    \/ updated_computed_aabbs

SpecConstruct == InitScene /\ [][NextConstruct]_vars

---------------------------------------------------------------------------
(* The two methods of AabbComputed called directly, on boxes with          *)
(* min <= max whose corners are integers of 0..MaxCoord.                   *)

Coords == 0..MaxCoord

Corners == {c \in Coords \X Coords \X Coords \X Coords : c[1] <= c[2] /\ c[3] <= c[4]}

Box(c, kind) == AabbComputed(Vec2(F(c[1]), F(c[3])), Vec2(F(c[2]), F(c[4])), kind, "None")

InitCall ==
    /\ entities = Entities
    /\ transform = [e \in Entities |-> VZero]
    /\ gtransform = [e \in Entities |-> VZero]
    /\ tchanged = {}
    /\ volumes = <<>>
    /\ aabbs = <<>>
    /\ keys = "none"
    /\ stage = "call"
    /\ frame = 0
    /\ panic = "none"
    /\ dbg = <<>>
    /\ \E c1, c2 \in Corners, k1, k2 \in AabbKind, other_ent \in Entities :
         probe = [NoProbe EXCEPT !.fn = "input", !.self = Box(c1, k1), !.other = Box(c2, k2),
                                 !.self_ent = PlayerEnt, !.other_ent = other_ent]

call_intersects ==
    /\ probe.fn = "input"
    /\ probe' = [probe EXCEPT !.fn = "intersects",
                              !.kind = intersects(probe.self, probe.other,
                                                  probe.self_ent, probe.other_ent)]
    /\ UNCHANGED <<entities, transform, gtransform, tchanged, volumes, aabbs, keys, stage,
                   frame, panic, dbg>>

call_shallow_axis_displace ==
    /\ probe.fn = "input"
    /\ probe' = [probe EXCEPT !.fn = "shallow_axis_displace",
                              !.displacement = shallow_axis_displace(probe.self, probe.other)]
    /\ UNCHANGED <<entities, transform, gtransform, tchanged, volumes, aabbs, keys, stage,
                   frame, panic, dbg>>

NextCall == call_intersects \/ call_shallow_axis_displace

SpecCall == InitCall /\ [][NextCall]_vars

---------------------------------------------------------------------------
(* Vocabulary of the properties *)

WellFormed(a) == Le(a.min.x, a.max.x) /\ Le(a.min.y, a.max.y)

\* inclusive interval overlap on both axes
InclusiveOverlap(a, b) ==
    /\ Le(a.min.x, b.max.x) /\ Ge(a.max.x, b.min.x)
    /\ Le(a.min.y, b.max.y) /\ Ge(a.max.y, b.min.y)

\* a spans strictly more than b on the x axis
ContainsOnX(a, b) == Lt(a.min.x, b.min.x) /\ Lt(b.max.x, a.max.x)

Min(a, b) == IF Lt(b, a) THEN b ELSE a

ClipAtZero(a) == IF Lt(a, Zero) THEN Zero ELSE a

\* how far the spans of a and b reach into each other, per axis
DepthX(a, b) == ClipAtZero(Min(Sub(a.max.x, b.min.x), Sub(b.max.x, a.min.x)))

DepthY(a, b) == ClipAtZero(Min(Sub(a.max.y, b.min.y), Sub(b.max.y, a.min.y)))

\* h is the one of a, b of smaller magnitude, b when the magnitudes are equal
SmallerMagnitude(h, a, b) ==
    /\ h \in {a, b}
    /\ Le(Abs(h), Abs(a)) /\ Le(Abs(h), Abs(b))
    /\ (Abs(a) = Abs(b) => h = b)

\* the registry entries u1, u2 are Colliders of different owners, the first
\* of policy Player and the second of policy Static, and the overlap test
\* succeeds in one order at least
PlayerMeetsStatic(u1, u2) ==
    /\ aabbs[u1].ent # aabbs[u2].ent
    /\ aabbs[u1].aabb.aabb_kind = "Collider" /\ aabbs[u2].aabb.aabb_kind = "Collider"
    /\ aabbs[u1].aabb.collision_behavior = "Player"
    /\ aabbs[u2].aabb.collision_behavior = "Static"
    /\ (GeometryTest(aabbs[u1].aabb, aabbs[u2].aabb) \/ GeometryTest(aabbs[u2].aabb, aabbs[u1].aabb))

\* every pair of registry entries that passes the overlap test holds a Sensor
OnlySensorOverlaps ==
    \A u1, u2 \in DOMAIN aabbs :
        (aabbs[u1].ent # aabbs[u2].ent /\ GeometryTest(aabbs[u1].aabb, aabbs[u2].aabb))
            => (aabbs[u1].aabb.aabb_kind = "Sensor" \/ aabbs[u2].aabb.aabb_kind = "Sensor")

\* p is a Player Collider and s a Static Collider of two live owners, their
\* boxes overlap, and the registry holds no other Collider
LonePlayerStaticPair(p, s) ==
    /\ aabbs[p].ent # aabbs[s].ent
    /\ {aabbs[p].ent, aabbs[s].ent} \subseteq entities
    /\ aabbs[p].aabb.aabb_kind = "Collider" /\ aabbs[s].aabb.aabb_kind = "Collider"
    /\ aabbs[p].aabb.collision_behavior = "Player"
    /\ aabbs[s].aabb.collision_behavior = "Static"
    /\ InclusiveOverlap(aabbs[p].aabb, aabbs[s].aabb)
    /\ \A w \in DOMAIN aabbs \ {p, s} : aabbs[w].aabb.aabb_kind = "Sensor"

---------------------------------------------------------------------------
(* Properties *)

\* C1: intersects is symmetric: for computed bounds A and B (min <= max on
\* both axes) of different entities, intersects(A, B, entA, entB) and
\* intersects(B, A, entB, entA) return the same result.
C1_IntersectsSymmetric ==
    (probe.fn = "intersects" /\ probe.self_ent # probe.other_ent
        /\ WellFormed(probe.self) /\ WellFormed(probe.other))
    => probe.kind = intersects(probe.other, probe.self, probe.other_ent, probe.self_ent)

\* C2: intersects returns an overlap exactly when the owning entities differ
\* and the boxes overlap on both axes under the inclusive interval test.
C2_OverlapIffInclusiveTest ==
    probe.fn = "intersects"
    => ((probe.kind # "None")
          <=> (probe.self_ent # probe.other_ent /\ InclusiveOverlap(probe.self, probe.other)))

\* C3: a ColliderCollider overlap of an unsupported policy pair never aborts
\* the frame: the resolution pass runs to completion.
C3_UnsupportedPairContinues == ~(stage = "aborted" /\ panic = "todo")

\* C4: a registered volume whose owner has no transform never makes the
\* resolver panic: the pairs of that owner are skipped.
C4_MissingTransformSkipped == ~(stage = "aborted" /\ panic = "unwrap")

\* C5: in one resolution pass each unordered pair of registered volumes is
\* resolved at most once: no two displacements are applied for the same pair.
C5_OncePerUnorderedPair ==
    stage = "physics"
    => \A u1, u2 \in DOMAIN aabbs :
          Cardinality({i \in DOMAIN dbg : {dbg[i].self, dbg[i].other} = {u1, u2}}) <= 1

\* C6: a resolution pass changes the local and the world translation of an
\* entity by the same vector, and changes them only for the owner of a Player
\* Collider that overlaps a Static Collider of another owner; the owner of the
\* Static volume and every other entity keep their transforms.
C6_OnlyPlayerOwnerDisplaced ==
    [][stage = "collision"
         => \A e \in Entities :
               /\ VSub(transform'[e], transform[e]) = VSub(gtransform'[e], gtransform[e])
               /\ (transform'[e] # transform[e]
                     => \E u1, u2 \in DOMAIN aabbs :
                           aabbs[u1].ent = e /\ PlayerMeetsStatic(u1, u2))]_vars

\* C7: from one recomputation of the bounds to the next, with no key held, no
\* owner destroyed and no other Collider about, the penetration of an overlapping
\* Player Collider and Static Collider along the axis of least penetration is
\* at most half of what it was.
C7_PenetrationHalves ==
    [][(stage = "aabb" /\ stage' = "collision" /\ frame >= 1 /\ keys = "none")
         => \A p, s \in DOMAIN aabbs :
               LonePlayerStaticPair(p, s)
               => IF Lt(DepthX(aabbs[p].aabb, aabbs[s].aabb), DepthY(aabbs[p].aabb, aabbs[s].aabb))
                  THEN Le(Times(DepthX(aabbs'[p].aabb, aabbs'[s].aabb), 2),
                          DepthX(aabbs[p].aabb, aabbs[s].aabb))
                  ELSE Le(Times(DepthY(aabbs'[p].aabb, aabbs'[s].aabb), 2),
                          DepthY(aabbs[p].aabb, aabbs[s].aabb))]_vars

\* C8: a resolution pass over a registry whose only overlaps involve a
\* Sensor leaves every local and world translation as it was, whatever the
\* movement policies.
C8_SensorOverlapsMoveNothing ==
    [][(stage = "collision" /\ OnlySensorOverlaps)
         => (transform' = transform /\ gtransform' = gtransform)]_vars

\* C9: shallow_axis_displace returns (horizontal/2, 0) when
\* |horizontal| < |vertical| and (0, vertical/2) otherwise, horizontal being
\* the smaller in magnitude of left and right (right on a tie) and vertical
\* the smaller in magnitude of up and down (down on a tie).
C9_ShallowAxisDisplace ==
    probe.fn = "shallow_axis_displace"
    => \E h \in {Sub(probe.other.min.x, probe.self.max.x), Sub(probe.other.max.x, probe.self.min.x)},
          v \in {Sub(probe.other.max.y, probe.self.min.y), Sub(probe.other.min.y, probe.self.max.y)} :
          /\ SmallerMagnitude(h, Sub(probe.other.min.x, probe.self.max.x),
                                 Sub(probe.other.max.x, probe.self.min.x))
          /\ SmallerMagnitude(v, Sub(probe.other.max.y, probe.self.min.y),
                                 Sub(probe.other.min.y, probe.self.max.y))
          /\ (Lt(Abs(h), Abs(v)) => probe.displacement = Vec2(Half(h), Zero))
          /\ (~Lt(Abs(h), Abs(v)) => probe.displacement = Vec2(Zero, Half(v)))

\* C10: every entry of the collision registry has min.x <= max.x and
\* min.y <= max.y.
C10_RegistryBoxesWellFormed == \A u \in DOMAIN aabbs : WellFormed(aabbs[u].aabb)

---------------------------------------------------------------------------
(* Reachable states in which the confirmed properties are exercised *)

\* C6: a pass has completed in which both arms displaced a Player's owner by
\* a non-zero vector while the owner of the Static volume stayed where it was
C6_Witness ==
    /\ stage = "physics" /\ panic = "none"
    /\ \E i, j \in DOMAIN dbg :
          /\ dbg[i].line = 405 /\ dbg[j].line = 417
          /\ dbg[i].displacement # VZero /\ dbg[j].displacement # VZero
          /\ dbg[i].ent = PlayerEnt /\ dbg[j].ent = PlayerEnt
    /\ transform[PlayerEnt] = gtransform[PlayerEnt]
    /\ transform[CowEnt] = SetupTransforms[CowEnt]
    /\ gtransform[CowEnt] = SetupTransforms[CowEnt]

\* C8: a pass has completed over a registry in which the player's Sensor
\* overlaps the cow's Collider and the cow's Sensor while the two Colliders
\* are apart, and nothing was printed or moved
C8_Witness ==
    /\ stage = "physics" /\ panic = "none"
    /\ OnlySensorOverlaps
    /\ \E u1, u2, u3 \in DOMAIN aabbs :
          /\ aabbs[u1].ent # aabbs[u2].ent /\ aabbs[u1].ent # aabbs[u3].ent
          /\ intersects(aabbs[u1].aabb, aabbs[u2].aabb, aabbs[u1].ent, aabbs[u2].ent)
                = "SensorCollider"
          /\ intersects(aabbs[u1].aabb, aabbs[u3].aabb, aabbs[u1].ent, aabbs[u3].ent)
                = "SensorSensor"
    /\ dbg = <<>>
    /\ transform[PlayerEnt] # SetupTransforms[PlayerEnt]
    /\ transform[PlayerEnt] = gtransform[PlayerEnt]

\* C9: a call on boxes whose horizontal and vertical candidates tie in
\* magnitude, answered along the vertical axis by a non-integer amount
C9_Witness ==
    /\ probe.fn = "shallow_axis_displace"
    /\ \E h \in {Sub(probe.other.min.x, probe.self.max.x), Sub(probe.other.max.x, probe.self.min.x)} :
          /\ SmallerMagnitude(h, Sub(probe.other.min.x, probe.self.max.x),
                                 Sub(probe.other.max.x, probe.self.min.x))
          /\ Abs(h) = Abs(Times(probe.displacement.y, 2))
          /\ h # Zero
    /\ probe.displacement.x = Zero
    /\ probe.displacement.y[2] = 1

====
